---- MODULE Spec2Model ----
(***************************************************************************)
(* ADSQuery (adsabs_query_full.py): one run of query_and_add_references    *)
(* on a freshly constructed client.  The remote API is the environment:    *)
(* every HTTP exchange draws a status, rate-limit headers and a document   *)
(* list.  Strings that the code builds (the "references" column) are       *)
(* sequences of characters, so joining is modelled by what it does.        *)
(***************************************************************************)
EXTENDS Integers, Sequences, FiniteSets, TLC

\* ---- bounds of the model ------------------------------------------------
MaxSpan == 1
MaxResults == 2
MaxBatchSize == 2

\* ---- program constants ---------------------------------------------------
Rows == 2000
BaseYear == 2000
OK == 200

NULL == "NULL"
ABSENT == "ABSENT"

Statuses == {OK, 500}
Bibcodes == {"a", "b"}
DoiValues == {ABSENT, NULL, "10.1/x"}

\* response.headers of one HTTP response; a missing header reads as None
HeaderSets ==
    { [remaining |-> NULL, limit |-> NULL, reset |-> NULL],
      [remaining |-> "4999", limit |-> "5000", reset |-> "1700000000"] }

\* documents of a search page (fl = ...,bibcode,...,doi,...)
Docs == [bibcode : Bibcodes, doi : DoiValues]

\* character strings
R1 == <<"r", "1">>
R2 == <<"r", "2">>
Sep == <<",", " ">>
NoneStr == <<"N", "o", "n", "e">>

\* documents of an enrichment response (fl = bibcode,reference)
RefValues == {ABSENT, <<R1>>, <<R2, R1>>}
RefDocs == [bibcode : Bibcodes, reference : RefValues]

SeqsUpTo(S, n) == UNION { [1..k -> S] : k \in 0..n }

Min(a, b) == IF a < b THEN a ELSE b

VARIABLES
    pc, start_year, end_year, batch_size,
    year, start, all_results,
    requests_made, remaining_requests, limit_requests, reset_time,
    df, bibcodes, batches, batch_num, results, df_final, files,
    exception,
    calls, last, sleeps_since_request, zero_docs_run, lastGave, dropped

vars == << pc, start_year, end_year, batch_size, year, start, all_results,
           requests_made, remaining_requests, limit_requests, reset_time,
           df, bibcodes, batches, batch_num, results, df_final, files,
           exception, calls, last, sleeps_since_request, zero_docs_run,
           lastGave, dropped >>

NoExchange ==
    [kind |-> "none", year |-> 0, start |-> 0, batch_num |-> 0,
     status |-> 0, empty |-> TRUE,
     headers |-> [remaining |-> NULL, limit |-> NULL, reset |-> NULL]]

EmptyMap == [b \in {} |-> <<>>]

Put(m, k, v) == [x \in DOMAIN m \cup {k} |-> IF x = k THEN v ELSE m[x]]

\* ---- pure parts of the code ------------------------------------------------

\* self.requests_made += 1   (CountedSkip: the increment forgotten)
CountedSkip(n) == n
Counted(n) == n + 1

\* params["start"] += params["rows"]   (NextStartStuck: offset never advanced)
NextStartStuck(s) == s
NextStart(s) == s + Rows

\* for year in range(start_year, end_year + 1): the year after a break
\* (NextYearAbort: the break leaving the year loop as well)
NextYearAbort(y, last_year) == last_year + 1
NextYear(y, last_year) == y + 1

\* pd.DataFrame(all_results) has a 'doi' column iff some document has the key
HasDoiColumn(rows) == \E i \in 1..Len(rows) : rows[i].doi # ABSENT

NotNull(v) == v \notin {ABSENT, NULL}

\* df[df['doi'].notnull()]   (KeepAll: the filter left out)
KeepAll(rows) == rows
DropNoDoi(rows) == SelectSeq(rows, LAMBDA r : NotNull(r.doi))

\* df[bibcode_column].dropna().tolist()
DropNa(rows) ==
    LET kept == SelectSeq(rows, LAMBDA r : NotNull(r.bibcode))
    IN  [i \in 1..Len(kept) |-> kept[i].bibcode]

\* [bibcodes[i:i + batch_size] for i in range(0, len(bibcodes), batch_size)]
Batches(ids, n) ==
    LET count == (Len(ids) + n - 1) \div n
    IN  [k \in 1..count |-> SubSeq(ids, (k - 1) * n + 1, Min(k * n, Len(ids)))]

\* for b in batch: results[b] = []   (FailedBatchSkip: nothing recorded)
RECURSIVE FailedBatch(_, _)
FailedBatchSkip(res, batch) == res
FailedBatch(res, batch) ==
    IF batch = <<>> THEN res
    ELSE FailedBatch(Put(res, Head(batch), <<>>), Tail(batch))

\* doc.get("reference", [])
GetReference(doc) == IF doc.reference = ABSENT THEN <<>> ELSE doc.reference

\* for doc in docs: results[doc["bibcode"]] = doc.get("reference", [])
RECURSIVE StoreDocs(_, _)
StoreDocs(res, docs) ==
    IF docs = <<>> THEN res
    ELSE StoreDocs(Put(res, Head(docs).bibcode, GetReference(Head(docs))),
                   Tail(docs))

\* ", ".join(refs)
RECURSIVE Join(_)
Join(refs) ==
    IF refs = <<>> THEN <<>>
    ELSE IF Len(refs) = 1 THEN refs[1]
    ELSE refs[1] \o Sep \o Join(Tail(refs))

\* lambda b: ", ".join(m.get(b, [])) if m.get(b) else "None"
\* (RefStringNoTruthTest: testing membership instead of truthiness)
RefStringNoTruthTest(m, b) == IF b \in DOMAIN m THEN Join(m[b]) ELSE NoneStr
RefString(m, b) ==
    IF b \in DOMAIN m /\ m[b] # <<>> THEN Join(m[b]) ELSE NoneStr

\* ---- history bookkeeping (what the last batch holding an id said of it) ----
Said(kind, refs) == [kind |-> kind, refs |-> refs]

RECURSIVE Gives(_, _)
Gives(docs, b) ==
    IF docs = <<>> THEN Said("omitted", <<>>)
    ELSE IF docs[Len(docs)].bibcode = b
    THEN Said("gave", GetReference(docs[Len(docs)]))
    ELSE Gives(SubSeq(docs, 1, Len(docs) - 1), b)

InBatch(batch, b) == \E i \in 1..Len(batch) : batch[i] = b

\* ---- initial state: ADSQuery(api_token), then query_and_add_references ----
Init ==
    /\ start_year = BaseYear
    /\ end_year \in BaseYear..(BaseYear + MaxSpan)
    /\ batch_size \in 1..MaxBatchSize
    /\ pc = "search"
    /\ year = start_year
    /\ start = 0
    /\ all_results = <<>>
    /\ requests_made = 0
    /\ remaining_requests = NULL
    /\ limit_requests = NULL
    /\ reset_time = NULL
    /\ df = <<>>
    /\ bibcodes = <<>>
    /\ batches = <<>>
    /\ batch_num = 0
    /\ results = EmptyMap
    /\ df_final = <<>>
    /\ files = {}
    /\ exception = NULL
    /\ calls = 0
    /\ last = NoExchange
    /\ sleeps_since_request = 0
    /\ zero_docs_run = TRUE
    /\ lastGave = [b \in Bibcodes |-> Said("none", <<>>)]
    /\ dropped = 0

enrichVars == << df, bibcodes, batches, batch_num, results, df_final, files,
                 lastGave, sleeps_since_request, dropped >>
searchVars == << year, start, all_results, zero_docs_run >>
argVars == << start_year, end_year, batch_size >>

\* _update_rate_limit_info(response)
UpdateRateLimitInfo(h) ==
    /\ remaining_requests' = h.remaining
    /\ limit_requests' = h.limit
    /\ reset_time' = h.reset

\* leaving the while loop of one year
Break ==
    LET ny == NextYear(year, end_year)
    IN  /\ year' = ny
        /\ start' = 0
        /\ pc' = IF ny <= end_year THEN "search" ELSE "filter"

\* one iteration of the while loop of query_articles
QueryPage ==
    /\ pc = "search"
    /\ \E status \in Statuses, h \in HeaderSets,
          docs \in SeqsUpTo(Docs, MaxResults - Len(all_results)) :
        /\ status # OK => docs = <<>>
        /\ requests_made' = Counted(requests_made)
        /\ UpdateRateLimitInfo(h)
        /\ calls' = calls + 1
        /\ last' = [kind |-> "search", year |-> year, start |-> start,
                    batch_num |-> 0, status |-> status, empty |-> (docs = <<>>),
                    headers |-> h]
        /\ zero_docs_run' = (zero_docs_run /\ status = OK /\ docs = <<>>)
        /\ IF status # OK
           THEN Break /\ UNCHANGED all_results
           ELSE IF docs = <<>>
           THEN Break /\ UNCHANGED all_results
           ELSE /\ all_results' = all_results \o docs
                /\ start' = NextStart(start)
                /\ UNCHANGED << year, pc >>
    /\ UNCHANGED << argVars, enrichVars, exception >>

\* requests.get raises (network unreachable): the run ends
QueryTransportError ==
    /\ pc = "search"
    /\ pc' = "raised"
    /\ exception' = "RequestException"
    /\ zero_docs_run' = FALSE
    /\ UNCHANGED << argVars, year, start, all_results, requests_made,
                    remaining_requests, limit_requests, reset_time,
                    enrichVars, calls, last >>

\* df = pd.DataFrame(all_results); df = df[df['doi'].notnull()]; return df
FilterDoi ==
    /\ pc = "filter"
    /\ IF HasDoiColumn(all_results)
       THEN /\ df' = DropNoDoi(all_results)
            /\ dropped' = Len(all_results) - Len(DropNoDoi(all_results))
            /\ pc' = "enrich"
            /\ UNCHANGED exception
       ELSE /\ pc' = "raised"
            /\ exception' = "KeyError"
            /\ UNCHANGED << df, dropped >>
    /\ all_results' = <<>>
    /\ UNCHANGED << argVars, year, start, zero_docs_run, requests_made, remaining_requests,
                    limit_requests, reset_time, bibcodes, batches, batch_num,
                    results, df_final, files, lastGave, sleeps_since_request,
                    calls, last >>

\* add_references_to_dataframe up to the first batch
StartEnrich ==
    /\ pc = "enrich"
    /\ bibcodes' = DropNa(df)
    /\ batches' = Batches(DropNa(df), batch_size)
    /\ batch_num' = 1
    /\ results' = EmptyMap
    /\ pc' = "batch"
    /\ UNCHANGED << argVars, searchVars, requests_made, remaining_requests,
                    limit_requests, reset_time, df, df_final, files, lastGave,
                    sleeps_since_request, exception, calls, last, dropped >>

\* one iteration of the batch loop of get_references_or_citations_batched
BatchRequest ==
    /\ pc = "batch"
    /\ batch_num <= Len(batches)
    /\ \E status \in Statuses, h \in HeaderSets,
          docs \in SeqsUpTo(RefDocs, Len(batches[batch_num])) :
        LET batch == batches[batch_num] IN
        /\ status # OK => docs = <<>>
        /\ requests_made' = Counted(requests_made)
        /\ UpdateRateLimitInfo(h)
        /\ calls' = calls + 1
        /\ last' = [kind |-> "batch", year |-> 0, start |-> 0,
                    batch_num |-> batch_num, status |-> status,
                    empty |-> (docs = <<>>), headers |-> h]
        /\ lastGave' = [b \in Bibcodes |->
                          IF InBatch(batch, b)
                          THEN (IF status # OK THEN Said("failed", <<>>)
                                ELSE Gives(docs, b))
                          ELSE lastGave[b]]
        /\ IF status # OK
           THEN /\ results' = FailedBatch(results, batch)
                /\ sleeps_since_request' = 0
           ELSE /\ results' = StoreDocs(results, docs)
                /\ sleeps_since_request' = 1
        /\ batch_num' = batch_num + 1
    /\ UNCHANGED << argVars, searchVars, df, bibcodes, batches, df_final,
                    files, exception, pc, dropped >>

BatchTransportError ==
    /\ pc = "batch"
    /\ batch_num <= Len(batches)
    /\ pc' = "raised"
    /\ exception' = "RequestException"
    /\ UNCHANGED << argVars, searchVars, requests_made, remaining_requests,
                    limit_requests, reset_time, enrichVars, calls, last >>

\* return results; df["references"] = ...; save_to_csv; save_to_json
AttachReferences ==
    /\ pc = "batch"
    /\ batch_num > Len(batches)
    /\ df_final' = [i \in 1..Len(df) |->
                      [bibcode |-> df[i].bibcode, doi |-> df[i].doi,
                       references |-> RefString(results, df[i].bibcode)]]
    /\ files' \in SUBSET {"csv", "json"}
    /\ pc' = "done"
    /\ UNCHANGED << argVars, searchVars, requests_made, remaining_requests,
                    limit_requests, reset_time, df, bibcodes, batches,
                    batch_num, results, lastGave, sleeps_since_request,
                    exception, calls, last, dropped >>

Next ==
    \/ QueryPage
    \/ QueryTransportError
    \/ FilterDoi
    \/ StartEnrich
    \/ BatchRequest
    \/ BatchTransportError
    \/ AttachReferences

Spec == Init /\ [][Next]_vars

\* ---- helpers of the properties ----------------------------------------------

Range(f) == { f[i] : i \in DOMAIN f }

\* the batch loop is over: get_references_or_citations_batched has returned
EnrichReturned == pc = "done" \/ (pc = "batch" /\ batch_num > Len(batches))

\* number of batches that hold identifier b
BatchesHolding(b) ==
    Cardinality({ k \in 1..Len(batches) : InBatch(batches[k], b) })

IsPrefix(s, t) == Len(s) <= Len(t) /\ SubSeq(t, 1, Len(s)) = s

\* s.split(", ")
RECURSIVE SplitFrom(_, _)
SplitFrom(s, cur) ==
    IF s = <<>> THEN << cur >>
    ELSE IF Len(s) >= Len(Sep) /\ SubSeq(s, 1, Len(Sep)) = Sep
    THEN << cur >> \o SplitFrom(SubSeq(s, Len(Sep) + 1, Len(s)), <<>>)
    ELSE SplitFrom(Tail(s), Append(cur, Head(s)))

Split(s) == SplitFrom(s, <<>>)

\* ---- properties -------------------------------------------------------------

\* C1: when get_references_or_citations_batched has returned, the key set of
\* the mapping equals the set of input identifiers, whatever the batch size
\* and whatever each batch's response was.
C1_KeySetEqualsInput == EnrichReturned => DOMAIN results = Range(bibcodes)

\* C2: when every page request of every year returned status 200 with zero
\* documents, query_articles returns an empty result and raises no exception.
C2_ZeroDocsReturnsEmpty ==
    (zero_docs_run /\ pc \notin {"search", "filter"})
        => (exception = NULL /\ df = <<>>)

\* C3: within a year the page requests are issued at offsets 0, rows, 2*rows,
\* ... in that order; after a response with zero documents no further request
\* is issued for that year: the next request is the next year's, at offset 0.
C3_Pagination ==
    /\ (pc = "search" /\ last.kind = "none") => (year = start_year /\ start = 0)
    /\ last.kind = "search" =>
        /\ last.start % Rows = 0
        /\ IF last.status = OK /\ ~last.empty
           THEN year = last.year /\ start = last.start + Rows
           ELSE year = last.year + 1 /\ start = 0

C3_Witness ==
    /\ pc = "search"
    /\ last.kind = "search" /\ last.status = OK /\ last.empty
    /\ last.start > 0

\* C4: a non-200 status on a page request stops pagination for that year only:
\* the documents accumulated so far stay accumulated (the accumulated sequence
\* is only ever extended while searching) and the next year of the range, if
\* any, is queried from offset 0.
C4_ErrorStopsYearOnly ==
    [][ /\ pc = "search" => IsPrefix(all_results, all_results')
        /\ (pc = "search" /\ calls' = calls + 1 /\ last'.status # OK) =>
              /\ all_results' = all_results
              /\ IF year < end_year
                 THEN pc' = "search" /\ year' = year + 1 /\ start' = 0
                 ELSE pc' = "filter" ]_vars

C4_Witness ==
    /\ pc = "search"
    /\ last.kind = "search" /\ last.status # OK /\ last.start > 0
    /\ all_results # <<>>
    /\ year = last.year + 1

\* C5: when a batch request returns a non-200 status, every identifier of that
\* batch is recorded with an empty sequence, no exception is raised, and the
\* loop goes on to the next batch.
C5_FailedBatchRecordsEmpty ==
    [][ (pc = "batch" /\ calls' = calls + 1 /\ last'.status # OK) =>
          /\ \A i \in 1..Len(batches[batch_num]) :
                /\ batches[batch_num][i] \in DOMAIN results'
                /\ results'[batches[batch_num][i]] = <<>>
          /\ exception' = NULL
          /\ pc' = "batch"
          /\ batch_num' = batch_num + 1 ]_vars

C5_Witness ==
    /\ pc = "batch"
    /\ last.kind = "batch" /\ last.status # OK
    /\ batch_num <= Len(batches)
    /\ \A i \in 1..Len(batches[last.batch_num]) :
          results[batches[last.batch_num][i]] = <<>>

\* C6: the records query_articles returns, and so the records handed to the
\* enrichment, all have a non-null DOI.
C6_OnlyDoiRecords ==
    /\ \A i \in 1..Len(df) : df[i].doi \notin {ABSENT, NULL}
    /\ \A i \in 1..Len(df_final) : df_final[i].doi \notin {ABSENT, NULL}
    /\ \A k \in 1..Len(bibcodes) :
          \E i \in 1..Len(df) :
              df[i].bibcode = bibcodes[k] /\ df[i].doi \notin {ABSENT, NULL}

C6_Witness == pc = "batch" /\ dropped > 0 /\ bibcodes # <<>>

\* C7: the "references" field of a record is "None" when its identifier is
\* absent from the mapping or maps to an empty sequence, and otherwise the
\* references in their original order joined with ", ".
C7_References ==
    pc = "done" =>
        /\ Len(df_final) = Len(df)
        /\ \A i \in 1..Len(df_final) :
            LET b == df[i].bibcode
                out == df_final[i].references
            IN  IF b \notin DOMAIN results
                THEN out = NoneStr
                ELSE IF results[b] = <<>>
                THEN out = NoneStr
                ELSE Split(out) = results[b]

C7_Witness ==
    /\ pc = "done"
    /\ \E i, j \in 1..Len(df) :
        /\ df[i].bibcode \in DOMAIN results
        /\ Len(results[df[i].bibcode]) = 2
        /\ df[j].bibcode \notin DOMAIN results

\* C8: requests_made starts at 0, never decreases and always equals the number
\* of HTTP calls answered so far; the rate-limit snapshot holds the headers of
\* the latest response, failed or not.
C8_RequestCounter ==
    /\ [](/\ requests_made = calls
          /\ remaining_requests = last.headers.remaining
          /\ limit_requests = last.headers.limit
          /\ reset_time = last.headers.reset)
    /\ [][requests_made' >= requests_made]_vars

C8_Witness ==
    /\ last.kind = "batch" /\ last.status # OK
    /\ remaining_requests # NULL
    /\ requests_made >= 3

\* C9: between any two consecutive batch requests there is exactly one pause,
\* whether the earlier batch succeeded or failed.
C9_PauseBetweenBatches ==
    (pc = "batch" /\ 1 < batch_num /\ batch_num <= Len(batches))
        => sleeps_since_request = 1

\* C10: an identifier held by more than one batch ends with the value given
\* by the last processed batch that holds it: what that batch's response gives
\* for it when the batch succeeded, the empty sequence when it failed.
C10_LastBatchWins ==
    EnrichReturned =>
        \A b \in Bibcodes :
            BatchesHolding(b) > 1 =>
                /\ b \in DOMAIN results
                /\ lastGave[b].kind \in {"failed", "gave"}
                /\ results[b] = lastGave[b].refs

====
